---------------------------- MODULE Spec2Model ----------------------------
(***************************************************************************)
(* A model of wrangler.py (Follow-Up Wrangler): the page materializer,     *)
(* the tolerant JSON parser, the local normalizer, the CSV sink, the       *)
(* rollup, and the sweep over a folder of PDF reports.                     *)
(*                                                                         *)
(* Python values are modelled as records [k, n, s]:                        *)
(*   k = "none"  : None / JSON null                                        *)
(*   k = "int"   : an int, n its value                                     *)
(*   k = "float" : a float, n its value in hundredths (0.5 is 50)          *)
(*   k = "str"   : a str, s its text                                       *)
(* A call that may raise returns [exc, ...] with exc = "" when it returns  *)
(* normally and the exception's class name when it raises.                 *)
(***************************************************************************)
EXTENDS Integers, Sequences, FiniteSets, TLC

VARIABLES
    \* the document path and page number a call is made for
    ctx,
    \* normalizer harness: one candidate through normalize_row, once and twice
    cand, res1, res2, csvOut, npc,
    \* page materializer: pdftotext's output, the call's result, its position
    ptxt, pout, ppc,
    \* the environment of a sweep: the model's response to each prompt, pdfinfo's
    \* output for each document, today's date, whether pandas can be imported
    gemini, pdfinfo, today, pandas,
    \* the files under out/: tasks.csv, summaries/*.md, risk_dashboard.json
    table, summaries, stats,
    \* sweep_folder and process_pdf: position, pdfs, the document and page in
    \* hand, n, all_rows, grand, and the exception that ended the run
    pc, pdfs, docIdx, n, pageIdx, all_rows, grand, abort,
    \* history: sweeps started, the table when the current sweep started, and
    \* the table's length at the end of each completed sweep
    sweeps, tableAtStart, done

normVars == <<cand, res1, res2, csvOut, npc>>
pageVars == <<ptxt, pout, ppc>>
envVars == <<gemini, pdfinfo, today, pandas>>
fileVars == <<table, summaries, stats>>
runVars == <<pc, pdfs, docIdx, n, pageIdx, all_rows, grand, abort>>
histVars == <<sweeps, tableAtStart, done>>
sweepVars == <<envVars, fileVars, runVars, histVars>>
vars == <<ctx, normVars, pageVars, sweepVars>>

\* ------------------------------------------------------------------ bounds
\* Largest N of a sample timeframe "in N <unit>".
MaxN == 2
\* Most non-whitespace characters of a sample page text.
MaxNonWs == 182
\* Most whitespace characters inside a sample page text.
MaxInnerWs == 2
\* Most whitespace characters before, and after, a sample page text.
MaxPad == 1
\* Most pages pdfinfo reports for a sample document.
MaxPages == 2
\* Most sweeps started in one behaviour.
MaxSweeps == 2
\* Most rows of a table the rollup is run on.
MaxRows == 3

\* --------------------------------------------------------------- constants
\* extract_page_text_or_image: the least stripped length taken as real text.
MinTextChars == 180

\* ----------------------------------------------------------- Python values
None == [k |-> "none", n |-> 0, s |-> ""]
IntV(i) == [k |-> "int", n |-> i, s |-> ""]
FloatV(h) == [k |-> "float", n |-> h, s |-> ""]
StrV(t) == [k |-> "str", n |-> 0, s |-> t]

\* bool(v): None, 0, 0.0 and "" are false.
Truthy(v) ==
    CASE v.k = "none" -> FALSE
      [] v.k = "str" -> v.s # ""
      [] OTHER -> v.n # 0

\* a or b
Or(a, b) == IF Truthy(a) THEN a ELSE b

Pad2(i) == IF i < 10 THEN "0" \o ToString(i) ELSE ToString(i)

\* f"{x:.2f}" of a float held in hundredths.
Fmt2f(h) ==
    LET a == IF h < 0 THEN -h ELSE h
    IN (IF h < 0 THEN "-" ELSE "") \o ToString(a \div 100) \o "." \o Pad2(a % 100)

\* repr(x) of a float held in hundredths: the shortest text that reads back
\* as x, with at least one decimal.
FloatRepr(h) ==
    LET a == IF h < 0 THEN -h ELSE h
    IN (IF h < 0 THEN "-" ELSE "") \o ToString(a \div 100) \o "."
       \o (IF a % 10 = 0 THEN ToString((a % 100) \div 10) ELSE Pad2(a % 100))

\* str(v)
PyStr(v) ==
    CASE v.k = "none" -> "None"
      [] v.k = "str" -> v.s
      [] v.k = "int" -> ToString(v.n)
      [] OTHER -> FloatRepr(v.n)

\* A field as csv.writer writes it: None as the empty text, a float by its
\* repr, anything else by str().
csv_field(v) == IF v.k = "none" THEN "" ELSE PyStr(v)

\* float(s) for the sample texts; any other text raises ValueError.
FloatTexts == ("0" :> 0) @@ ("0.0" :> 0) @@ ("0.7" :> 70) @@ ("1.5" :> 150)

\* float(v): [exc, n].
PyFloat(v) ==
    CASE v.k = "int" -> [exc |-> "", n |-> v.n * 100]
      [] v.k = "float" -> [exc |-> "", n |-> v.n]
      [] v.k = "str" ->
            IF v.s \in DOMAIN FloatTexts
            THEN [exc |-> "", n |-> FloatTexts[v.s]]
            ELSE [exc |-> "ValueError", n |-> 0]
      [] OTHER -> [exc |-> "TypeError", n |-> 0]

\* str.lower() on the sample texts.
LowerTexts ==
    ("HIGH" :> "high") @@ ("High" :> "high") @@ ("URGENT" :> "urgent")
    @@ ("IN" :> "in") @@ ("In" :> "in")
    @@ ("Day" :> "day") @@ ("Week" :> "week") @@ ("Month" :> "month")
    @@ ("Year" :> "year") @@ ("MONTH" :> "month")

Lower(t) == IF t \in DOMAIN LowerTexts THEN LowerTexts[t] ELSE t

\* pathlib.Path(p).name for the sample paths.
PathNames ==
    ("sample_reports/a.pdf" :> "a.pdf") @@ ("sample_reports/b.PDF" :> "b.PDF")

PathName(p) == IF p \in DOMAIN PathNames THEN PathNames[p] ELSE p

\* ------------------------------------------------------- calendar arithmetic
IsLeap(y) == (y % 4 = 0 /\ y % 100 # 0) \/ y % 400 = 0

DaysInMonth(y, m) ==
    CASE m = 2 -> IF IsLeap(y) THEN 29 ELSE 28
      [] m \in {4, 6, 9, 11} -> 30
      [] OTHER -> 31

IsValidDate(dt) ==
    /\ dt[2] \in 1..12
    /\ dt[3] >= 1
    /\ dt[3] <= DaysInMonth(dt[1], dt[2])

\* date.isoformat()
IsoText(dt) == ToString(dt[1]) \o "-" \o Pad2(dt[2]) \o "-" \o Pad2(dt[3])

RECURSIVE DaysBeforeMonth(_, _)
DaysBeforeMonth(y, m) ==
    IF m = 1 THEN 0 ELSE DaysBeforeMonth(y, m - 1) + DaysInMonth(y, m - 1)

\* date.toordinal()
Ordinal(dt) ==
    LET y == dt[1] - 1
    IN y * 365 + (y \div 4) - (y \div 100) + (y \div 400)
       + DaysBeforeMonth(dt[1], dt[2]) + dt[3]

NextDay(dt) ==
    IF dt[3] < DaysInMonth(dt[1], dt[2]) THEN <<dt[1], dt[2], dt[3] + 1>>
    ELSE IF dt[2] < 12 THEN <<dt[1], dt[2] + 1, 1>>
    ELSE <<dt[1] + 1, 1, 1>>

RECURSIVE AddDays(_, _)
AddDays(dt, i) == IF i = 0 THEN dt ELSE AddDays(NextDay(dt), i - 1)

Min(a, b) == IF a < b THEN a ELSE b

\* base + relativedelta(months=i): the day is clipped to the target month.
AddMonths(dt, i) ==
    LET t == (dt[2] - 1) + i
        y == dt[1] + (t \div 12)
        m == (t % 12) + 1
    IN <<y, m, Min(dt[3], DaysInMonth(y, m))>>

\* base + relativedelta(<unit>s=i)
relativedelta_add(dt, i, unit) ==
    CASE unit = "day" -> AddDays(dt, i)
      [] unit = "week" -> AddDays(dt, 7 * i)
      [] unit = "month" -> AddMonths(dt, i)
      [] OTHER -> AddMonths(dt, 12 * i)

\* ------------------------------------------------------------- sample texts
\* The years of the sample dates.
Years == 2022..2026

AllDates ==
    {<<y, m, d>> : y \in Years, m \in 1..12, d \in 1..31}

\* The ISO texts of the calendar dates of those years, each with its date:
\* what a date parser makes of a YYYY-MM-DD text. A text of no calendar date
\* (2023-02-30, "last week") has no entry.
IsoDates ==
    {[text |-> IsoText(dt), date |-> dt] : dt \in {d \in AllDates : IsValidDate(d)}}

IsoDateTexts == {r.text : r \in IsoDates}

DateOfText(t) == (CHOOSE r \in IsoDates : r.text = t).date

Units == {"day", "week", "month", "year"}

\* The timeframe texts the pattern in\s+(\d+)\s+(day|week|month|year)s? finds
\* (re.I, re.search), with the groups it captures.
TimeframeForms ==
    {[text |-> pre \o kw \o " " \o ToString(i) \o " " \o u \o suf,
      pre |-> pre, n |-> i, unit |-> Lower(u)] :
        pre \in {"", "with"}, kw \in {"in", "IN"}, i \in 1..MaxN,
        u \in Units \cup {"Month"}, suf \in {"", "s"}}

TimeframeTexts == {f.text : f \in TimeframeForms}

\* re.search(pattern, tf, re.I): [found, n, unit].
re_search(tf) ==
    IF tf \in TimeframeTexts
    THEN LET f == CHOOSE g \in TimeframeForms : g.text = tf
         IN [found |-> TRUE, n |-> f.n, unit |-> f.unit]
    ELSE [found |-> FALSE, n |-> 0, unit |-> ""]

\* --------------------------------------------------------------- imports
\* The module imports os, sys, re, csv, json, subprocess, tempfile, pathlib,
\* datetime and defaultdict only: the names dtp and relativedelta are unbound,
\* and evaluating either raises NameError.
dtp_bound == FALSE
relativedelta_bound == FALSE

\* dtp.parse(v).date(): [exc, date].
dtp_parse(v) ==
    IF ~dtp_bound THEN [exc |-> "NameError", date |-> <<0, 0, 0>>]
    ELSE IF v.k = "str" /\ v.s \in IsoDateTexts
    THEN [exc |-> "", date |-> DateOfText(v.s)]
    ELSE [exc |-> "ParserError", date |-> <<0, 0, 0>>]

\* ----------------------------------------------------------- normalization
\* add_relative_due_by(row): [exc, row].
add_relative_due_by(row) ==
    IF Truthy(row.due_by) \/ ~Truthy(row.timeframe) \/ ~Truthy(row.report_date)
    THEN [exc |-> "", row |-> row]
    ELSE
        LET tf == PyStr(row.timeframe)
            base == dtp_parse(row.report_date)
        IN  IF base.exc # "" THEN [exc |-> "", row |-> row]
            ELSE
                LET m == re_search(tf)
                IN  IF ~m.found THEN [exc |-> "", row |-> row]
                    ELSE IF ~relativedelta_bound
                    THEN [exc |-> "NameError", row |-> row]
                    ELSE [exc |-> "",
                          row |-> [row EXCEPT !.due_by =
                              StrV(IsoText(relativedelta_add(base.date, m.n, m.unit)))]]

\* (r.get("priority") or "low").lower(): [exc, v].
priority_of(r) ==
    LET v == Or(r.priority, StrV("low"))
    IN  IF v.k = "str" THEN [exc |-> "", v |-> StrV(Lower(v.s))]
        ELSE [exc |-> "AttributeError", v |-> None]

\* float(r.get("confidence") or 0.5): [exc, n].
confidence_of(r) == PyFloat(Or(r.confidence, FloatV(50)))

\* normalize_row(r, pdf, page): [exc, row].
normalize_row(r, pdf, page) ==
    LET pr == priority_of(r)
        cf == confidence_of(r)
        row == [patient_id |-> r.patient_id,
                report_date |-> r.report_date,
                modality |-> Or(r.modality, StrV("Other")),
                body_part |-> Or(r.body_part, StrV("")),
                finding |-> Or(r.finding, StrV("")),
                recommended_followup |-> r.recommended_followup,
                timeframe |-> r.timeframe,
                due_by |-> r.due_by,
                priority |-> pr.v,
                source_pdf |-> StrV(PathName(pdf)),
                page |-> IntV(page),
                confidence |-> FloatV(cf.n)]
    IN  IF pr.exc # "" THEN [exc |-> pr.exc, row |-> row]
        ELSE IF cf.exc # "" THEN [exc |-> cf.exc, row |-> row]
        ELSE add_relative_due_by(row)

\* One CSV record, as append_rows writes it: twelve text fields.
csv_row(r) ==
    <<csv_field(Or(r.patient_id, StrV(""))),
      csv_field(Or(r.report_date, StrV(""))),
      csv_field(r.modality),
      csv_field(r.body_part),
      csv_field(r.finding),
      csv_field(Or(r.recommended_followup, StrV(""))),
      csv_field(Or(r.timeframe, StrV(""))),
      csv_field(Or(r.due_by, StrV(""))),
      csv_field(r.priority),
      csv_field(r.source_pdf),
      csv_field(r.page),
      Fmt2f(r.confidence.n)>>

\* Candidates as the verification pass can return them: any key may be null
\* or missing (r.get gives None for both), and priority and confidence may
\* carry any JSON scalar.
SampleTimeframes ==
    {StrV("in " \o ToString(i) \o " " \o u \o (IF i > 1 THEN "s" ELSE "")) :
        i \in 1..MaxN, u \in Units}
    \cup {StrV("IN 1 Month"), StrV("within 2 weeks"), StrV("3-6 months"),
          StrV(""), None}

Candidates ==
    [patient_id : {None, StrV("P-17")},
     report_date : {None, StrV("2024-01-31"), StrV("2023-02-30"), StrV("last week")},
     modality : {None, StrV("CT")},
     body_part : {None, StrV("chest")},
     finding : {StrV("6 mm nodule")},
     recommended_followup : {None, StrV("CT chest")},
     timeframe : SampleTimeframes,
     due_by : {None, StrV("2024-06-01")},
     priority : {None, StrV("high"), StrV("HIGH"), StrV("urgent"), IntV(1)},
     confidence : {None, IntV(0), FloatV(20), FloatV(90), FloatV(150),
                   FloatV(-30), StrV("0"), StrV("0.7"), StrV("high")}]

NormContexts ==
    {[pdf |-> "sample_reports/a.pdf", page |-> 1],
     [pdf |-> "sample_reports/b.PDF", page |-> 2]}

\* --------------------------------------------------------- page materializer
\* A command's output is a sequence of characters, each held as its code
\* point. Ord is ord(c) for the characters of the sample texts.
Ord ==
    (" " :> 32) @@ ("\t" :> 9) @@ ("\n" :> 10) @@ ("\f" :> 12) @@ ("\r" :> 13)
    @@ ("x" :> 120) @@ ("o" :> 111) @@ ("c" :> 99) @@ ("r" :> 114)

Text(chars) == [i \in DOMAIN chars |-> Ord[chars[i]]]

\* The code points str.strip() removes: those for which str.isspace() holds.
Whitespace ==
    (9..13) \cup (28..32) \cup {133, 160, 5760} \cup (8192..8202)
    \cup {8232, 8233, 8239, 8287, 12288}

IsSpace(c) == c \in Whitespace

Repeat(c, i) == [j \in 1..i |-> c]

\* A sample page text: lead spaces, nonws letters with inner spaces after the
\* first of them, and a tail of trail whitespace characters that ends with the
\* form feed pdftotext closes a page with, newlines before it.
PageText(lead, nonws, inner, trail) ==
    Repeat(Ord[" "], lead)
    \o (IF nonws = 0 THEN <<>>
        ELSE <<Ord["x"]>> \o Repeat(Ord[" "], inner)
             \o Repeat(Ord["x"], nonws - 1))
    \o (IF trail = 0 THEN <<>>
        ELSE Repeat(Ord["\n"], trail - 1) \o <<Ord["\f"]>>)

PageTexts ==
    {PageText(lead, nonws, inner, trail) :
        lead \in 0..MaxPad, trail \in 0..MaxPad,
        nonws \in 0..MaxNonWs, inner \in 0..MaxInnerWs}

\* str.strip(): the text without its leading and trailing whitespace.
strip(t) ==
    IF \A i \in 1..Len(t) : IsSpace(t[i]) THEN <<>>
    ELSE LET first == CHOOSE i \in 1..Len(t) :
                        ~IsSpace(t[i]) /\ \A j \in 1..(i - 1) : IsSpace(t[j])
             cut == CHOOSE k \in 0..Len(t) :
                        ~IsSpace(t[Len(t) - k])
                        /\ \A j \in (Len(t) - k + 1)..Len(t) : IsSpace(t[j])
         IN SubSeq(t, first, Len(t) - cut)

\* pathlib.Path(p).stem for the sample paths.
PathStems ==
    ("sample_reports/a.pdf" :> "a") @@ ("sample_reports/b.PDF" :> "b")

\* The file pdftoppm renders page `page` of `pdf` to.
img_path_of(pdf, page) ==
    StrV("/tmp/" \o PathStems[pdf] \o "-p" \o ToString(page) \o "-1.png")

\* The test without the strip: surrounding whitespace counted as text.
text_long_enough_unstripped(txt) == Len(txt) >= MinTextChars

\* len(txt.strip()) >= 180: the page carries real text.
text_long_enough(txt) == Len(strip(txt)) >= MinTextChars

\* What tesseract can print for a rendered page.
OcrTexts ==
    {<<>>, Text(<<"\r", "\n", "\f">>), Text(<<"o", "c", "r">>),
     Text(<<" ", "o", "c", "r", "\n", "\f">>)}

\* The commands extract_page_text_or_image can run; `fail` names the one that
\* exits non-zero, or "none".
PageTools == {"pdftotext", "pdftoppm", "tesseract"}

\* extract_page_text_or_image(pdf, page), given pdftotext's output txt,
\* tesseract's output ocr and the failing command:
\* [exc, text, img, ran], ran the commands run in order.
extract_page_text_or_image(pdf, page, txt, ocr, fail) ==
    IF fail = "pdftotext"
    THEN [exc |-> "RuntimeError", text |-> <<>>, img |-> None,
          ran |-> <<"pdftotext">>]
    ELSE IF text_long_enough(txt)
    THEN [exc |-> "", text |-> txt, img |-> None, ran |-> <<"pdftotext">>]
    ELSE IF fail = "pdftoppm"
    THEN [exc |-> "RuntimeError", text |-> <<>>, img |-> None,
          ran |-> <<"pdftotext", "pdftoppm">>]
    ELSE IF fail = "tesseract"
    THEN [exc |-> "RuntimeError", text |-> <<>>, img |-> None,
          ran |-> <<"pdftotext", "pdftoppm", "tesseract">>]
    ELSE [exc |-> "",
          text |-> IF Len(strip(ocr)) > 0 THEN ocr ELSE <<>>,
          img |-> img_path_of(pdf, page),
          ran |-> <<"pdftotext", "pdftoppm", "tesseract">>]

NoPage == [exc |-> "", text |-> <<>>, img |-> None, ran |-> <<>>]

PageIdle ==
    /\ ptxt = <<>>
    /\ pout = NoPage
    /\ ppc = "idle"

\* ------------------------------------------------------------ model output
\* A parsed JSON value: jt is its type and items what a for loop over it
\* yields, each item an object (a dict, rec its fields) or not. A loop over a
\* JSON object yields its keys, which are texts, not objects.
NoCandidate ==
    [patient_id |-> None, report_date |-> None, modality |-> None,
     body_part |-> None, finding |-> None, recommended_followup |-> None,
     timeframe |-> None, due_by |-> None, priority |-> None,
     confidence |-> None]

Object(rec) == [obj |-> TRUE, rec |-> rec]
NotObject == [obj |-> FALSE, rec |-> NoCandidate]

JList(items) == [jt |-> "list", items |-> items]
JObject(keys) == [jt |-> "object", items |-> keys]
JNull == [jt |-> "null", items |-> <<>>]

CandA ==
    [patient_id |-> StrV("P-17"), report_date |-> StrV("2024-01-31"),
     modality |-> StrV("CT"), body_part |-> StrV("chest"),
     finding |-> StrV("6 mm nodule"), recommended_followup |-> StrV("CT chest"),
     timeframe |-> StrV("in 2 months"), due_by |-> None,
     priority |-> StrV("HIGH"), confidence |-> FloatV(90)]

CandB ==
    [patient_id |-> None, report_date |-> None, modality |-> None,
     body_part |-> FloatV(90), finding |-> StrV("6 mm nodule"),
     recommended_followup |-> None, timeframe |-> None,
     due_by |-> StrV("2024-06-01"), priority |-> None,
     confidence |-> StrV("0.7")]

\* A response text, by how json.loads and the bracket pattern read it:
\*   json     : the whole text is JSON, of value `value`
\*   embedded : not JSON, but its first "[" to its last "]" is a JSON list
\*   broken   : not JSON, and its first "[" to its last "]" is not JSON either
\*   prose    : not JSON, with no "[" ... "]" in it
Response(form, value) == [form |-> form, value |-> value]

ProseResponse == Response("prose", JNull)
ListAResponse == Response("json", JList(<<Object(CandA)>>))
FencedABResponse == Response("embedded", JList(<<Object(CandA), Object(CandB)>>))
BrokenResponse == Response("broken", JNull)
ErrorObjectResponse == Response("json", JObject(<<NotObject>>))
NullResponse == Response("json", JNull)
NumberListResponse == Response("embedded", JList(<<Object(CandB), NotObject>>))

ExtractResponses == {ProseResponse, ListAResponse}

VerifyResponses ==
    {ProseResponse, ListAResponse, FencedABResponse, BrokenResponse,
     ErrorObjectResponse, NullResponse, NumberListResponse}

\* safe_json_loads(s)
safe_json_loads(resp) ==
    IF resp.form = "json" THEN resp.value
    ELSE IF resp.form = "embedded" THEN resp.value
    ELSE JList(<<>>)

\* for r in checked: all_rows.append(normalize_row(r, pdf_path, p)), from
\* item i on: [exc, rows], rows the records appended before any exception.
RECURSIVE normalize_items(_, _, _, _, _)
normalize_items(items, pdf, p, i, acc) ==
    IF i > Len(items) THEN [exc |-> "", rows |-> acc]
    ELSE IF ~items[i].obj THEN [exc |-> "AttributeError", rows |-> acc]
    ELSE LET r == normalize_row(items[i].rec, pdf, p)
         IN  IF r.exc # "" THEN [exc |-> r.exc, rows |-> acc]
             ELSE normalize_items(items, pdf, p, i + 1, Append(acc, r.row))

page_rows(checked, pdf, p) ==
    IF checked.jt \notin {"list", "object"}
    THEN [exc |-> "TypeError", rows |-> <<>>]
    ELSE normalize_items(checked.items, pdf, p, 1, <<>>)

\* ------------------------------------------------------------------ the sink
RECURSIVE csv_rows(_)
csv_rows(rows) ==
    IF rows = <<>> THEN <<>> ELSE <<csv_row(Head(rows))>> \o csv_rows(Tail(rows))

\* The sink with the file opened in mode "w": each call replaces the table.
append_rows_truncating(tbl, rows) == csv_rows(rows)

\* The sink skipping every row the table already holds.
RECURSIVE append_rows_dedup(_, _)
append_rows_dedup(tbl, rows) ==
    IF rows = <<>> THEN tbl
    ELSE LET line == csv_row(Head(rows))
         IN  append_rows_dedup(
                 IF \E i \in 1..Len(tbl) : tbl[i] = line THEN tbl
                 ELSE Append(tbl, line),
                 Tail(rows))

\* append_rows(csv_path, rows): the file is opened in mode "a".
append_rows(tbl, rows) == tbl \o csv_rows(rows)

\* write_summary_md(pdf_name, rows): the file replaces any earlier one.
summary_name(pdf_name) ==
    IF pdf_name = "a.pdf" THEN "a.md" ELSE IF pdf_name = "b.PDF" THEN "b.md"
    ELSE pdf_name \o ".md"

write_summary_md(files, pdf_name, rows) ==
    (summary_name(pdf_name) :>
        [title |-> pdf_name, placeholder |-> (rows = <<>>), bullets |-> rows])
    @@ files

\* ---------------------------------------------------------------- the rollup
NoCounts == [v \in {} |-> 0]

ZeroStats ==
    [total_rows |-> 0, due_within_30 |-> 0,
     by_priority |-> NoCounts, by_modality |-> NoCounts]

\* within_30(x): a NameError from dtp is caught like any parse error.
within_30(x, t) ==
    LET d == dtp_parse(StrV(x))
    IN  IF d.exc # "" THEN FALSE
        ELSE LET delta == Ordinal(d.date) - Ordinal(t)
             IN -365 <= delta /\ delta <= 30

\* pd.read_csv(csv_path): the first record of the file is taken as the header
\* row, the records after it as the data.
has_column(header, name) == \E i \in 1..Len(header) : header[i] = name

column(header, data, name) ==
    LET i == CHOOSE j \in 1..Len(header) : header[j] = name
    IN [k \in 1..Len(data) |-> data[k][i]]

\* Series.value_counts(dropna=False).to_dict()
value_counts(col) ==
    [v \in {col[k] : k \in 1..Len(col)} |->
        Cardinality({k \in 1..Len(col) : col[k] = v})]

\* aggregate_dashboard(csv_path): what is written to risk_dashboard.json.
\* Without pandas the import raises; an empty file makes read_csv raise; both
\* are swallowed and the zeros are written.
aggregate_dashboard(tbl, t, has_pandas) ==
    IF ~has_pandas \/ tbl = <<>> THEN ZeroStats
    ELSE
        LET header == Head(tbl)
            data == Tail(tbl)
        IN  [total_rows |-> Len(data),
             due_within_30 |->
                IF has_column(header, "due_by")
                THEN LET col == column(header, data, "due_by")
                     IN Cardinality({k \in 1..Len(col) : within_30(col[k], t)})
                ELSE 0,
             by_priority |->
                IF has_column(header, "priority")
                THEN value_counts(column(header, data, "priority"))
                ELSE NoCounts,
             by_modality |->
                IF has_column(header, "modality")
                THEN value_counts(column(header, data, "modality"))
                ELSE NoCounts]

\* ----------------------------------------------------------------- the sweep
Folder == "sample_reports"

\* os.listdir(folder)
FolderListing == <<"a.pdf", "notes.txt", "b.PDF">>

\* f.lower().endswith(".pdf")
is_pdf_name(f) == f \in {"a.pdf", "b.PDF"}

\* [os.path.join(folder, f) for f in os.listdir(folder) if ...]
list_pdfs(folder) ==
    LET keep == SelectSeq(FolderListing, is_pdf_name)
    IN [i \in 1..Len(keep) |-> folder \o "/" \o keep[i]]

Pdfs == {list_pdfs(Folder)[i] : i \in 1..Len(list_pdfs(Folder))}

\* pdfinfo's output: with a "Pages: n" line or without one.
PdfInfoOutputs ==
    {[pages_line |-> FALSE, n |-> 0]}
    \cup {[pages_line |-> TRUE, n |-> k] : k \in 1..MaxPages}

\* pdf_pages(pdf_path), given pdfinfo's output.
pdf_pages(out) == IF out.pages_line THEN out.n ELSE 1

\* The sample documents: born-digital and scanned pages alternate, a.pdf
\* starting with a born-digital page and b.PDF with a scanned one.
PageKinds == {"digital", "scanned"}

page_kind(pdf, p) ==
    IF (p + (IF pdf = "sample_reports/a.pdf" THEN 0 ELSE 1)) % 2 = 1
    THEN "digital" ELSE "scanned"

\* pdftotext's output for a page of each kind.
page_text(kind) ==
    IF kind = "digital" THEN PageText(0, MinTextChars + 2, 1, 1)
    ELSE PageText(1, 3, 1, 1)

SweepTools == PageTools \cup {"gemini_extract", "gemini_selfcheck"}

\* One pass of process_pdf's loop, for page p: [exc, at, rows]; at names the
\* command whose failure raised, if one did. The extraction response is parsed
\* and handed to the self-check prompt only (json.dumps of a parsed value does
\* not raise): the page's records are read off the self-check response, which
\* for a given model is fixed by the page.
process_page(pdf, p, ocr, fail, llm) ==
    LET kind == page_kind(pdf, p)
        m == extract_page_text_or_image(pdf, p, page_text(kind), ocr, fail)
        checked == safe_json_loads(llm.verify[kind])
        got == page_rows(checked, pdf, p)
    IN  IF m.exc # "" THEN [exc |-> m.exc, at |-> fail, rows |-> <<>>]
        ELSE IF fail \in {"gemini_extract", "gemini_selfcheck"}
        THEN [exc |-> "RuntimeError", at |-> fail, rows |-> <<>>]
        ELSE [exc |-> got.exc, at |-> "", rows |-> got.rows]

NoAbort == [exc |-> "", at |-> ""]

SweepIdle ==
    /\ gemini = <<>>
    /\ pdfinfo = <<>>
    /\ today = <<0, 0, 0>>
    /\ pandas = FALSE
    /\ table = <<>>
    /\ summaries = <<>>
    /\ stats = ZeroStats
    /\ pc = "unused"
    /\ pdfs = <<>>
    /\ docIdx = 0
    /\ n = 0
    /\ pageIdx = 0
    /\ all_rows = <<>>
    /\ grand = <<>>
    /\ abort = NoAbort
    /\ sweeps = 0
    /\ tableAtStart = <<>>
    /\ done = <<>>

\* ------------------------------------------------- normalizer: the harness
NoResult == [exc |-> "", row |-> None]
NoCsv == <<>>

NormIdle ==
    /\ cand = None
    /\ res1 = NoResult
    /\ res2 = NoResult
    /\ csvOut = NoCsv
    /\ npc = "idle"

InitNorm ==
    /\ cand \in Candidates
    /\ ctx \in NormContexts
    /\ res1 = NoResult
    /\ res2 = NoResult
    /\ csvOut = NoCsv
    /\ npc = "input"
    /\ PageIdle
    /\ SweepIdle

\* normalize_row(r, pdf, page) on a verified candidate.
Normalize ==
    /\ npc = "input"
    /\ res1' = normalize_row(cand, ctx.pdf, ctx.page)
    /\ npc' = IF res1'.exc = "" THEN "normalized" ELSE "raised"
    /\ UNCHANGED <<ctx, cand, res2, csvOut, pageVars, sweepVars>>

\* normalize_row applied to its own output, same document and page.
Renormalize ==
    /\ npc = "normalized"
    /\ res2' = normalize_row(res1.row, ctx.pdf, ctx.page)
    /\ npc' = "renormalized"
    /\ UNCHANGED <<ctx, cand, res1, csvOut, pageVars, sweepVars>>

\* append_rows writes the normalized record as one CSV row.
WriteRow ==
    /\ npc = "normalized"
    /\ csvOut' = csv_row(res1.row)
    /\ npc' = "written"
    /\ UNCHANGED <<ctx, cand, res1, res2, pageVars, sweepVars>>

NextNorm == Normalize \/ Renormalize \/ WriteRow

SpecNorm == InitNorm /\ [][NextNorm]_vars

\* ------------------------------------------------- normalizer: the claims
Normalized == npc \in {"normalized", "renormalized", "written"}

\* The timeframe reads exactly "in N day(s)/week(s)/month(s)/year(s)", in any
\* letter case.
IsRelativeTimeframe(v) ==
    /\ v.k = "str"
    /\ \E f \in TimeframeForms : f.text = v.s /\ f.pre = ""

IsCalendarDate(v) == v.k = "str" /\ v.s \in IsoDateTexts

ExpectedDueBy(r) ==
    LET f == CHOOSE g \in TimeframeForms : g.text = r.timeframe.s
    IN StrV(IsoText(relativedelta_add(DateOfText(r.report_date.s), f.n, f.unit)))

\* A field is absent when it is null (or missing) or the empty text.
Absent(v) == v = None \/ v = StrV("")

\* C1: a candidate with no due_by, a valid report date R and a timeframe
\* "in N <unit>" is emitted with due_by = R + N units (calendar-aware), never
\* with due_by absent.
C1_DueByComputed ==
    (/\ Normalized
     /\ Absent(cand.due_by)
     /\ IsCalendarDate(cand.report_date)
     /\ IsRelativeTimeframe(cand.timeframe))
    => res1.row.due_by = ExpectedDueBy(cand)

\* C2: a candidate whose recommended_followup is null is emitted with
\* timeframe and due_by absent, whatever its other fields; so a CSV row with
\* an empty recommended_followup has empty timeframe and due_by.
C2_NoFollowupNoTimeframe ==
    /\ (Normalized /\ cand.recommended_followup = None)
        => (Absent(res1.row.timeframe) /\ Absent(res1.row.due_by))
    /\ (npc = "written" /\ csvOut[6] = "")
        => (csvOut[7] = "" /\ csvOut[8] = "")

ConfidenceInRange(v) ==
    \/ v.k \in {"int", "float"} /\ PyFloat(v).n \in 0..100
    \/ v.k = "str" /\ v.s \in DOMAIN FloatTexts /\ FloatTexts[v.s] \in 0..100

\* C7: the emitted confidence lies in [0.0, 1.0]; an out-of-range or
\* non-numeric input confidence becomes 0.5; no confidence value makes
\* normalize_row raise.
C7_ConfidenceCoerced ==
    npc \in {"normalized", "renormalized", "written", "raised"} =>
        /\ res1.exc \notin {"ValueError", "TypeError"}
        /\ res1.exc = "" =>
            /\ res1.row.confidence.n \in 0..100
            /\ (cand.confidence # None /\ ~ConfidenceInRange(cand.confidence))
                => res1.row.confidence.n = 50

\* C8: the emitted priority is one of high, medium, low, and is low whenever
\* the emitted confidence is below 0.5.
C8_PriorityClosed ==
    Normalized =>
        /\ res1.row.priority \in {StrV("high"), StrV("medium"), StrV("low")}
        /\ res1.row.confidence.n < 50 => res1.row.priority = StrV("low")

\* C9: normalize_row is idempotent: applied to its own output under the same
\* document and page it returns the identical record.
C9_Idempotent ==
    npc = "renormalized" => (res2.exc = "" /\ res2.row = res1.row)


\* ------------------------------------------------ page materializer: harness
InitPage ==
    /\ ctx \in NormContexts
    /\ ptxt \in PageTexts
    /\ pout = NoPage
    /\ ppc = "input"
    /\ NormIdle
    /\ SweepIdle

\* One call of extract_page_text_or_image, to its return or its exception.
ExtractPage ==
    /\ ppc = "input"
    /\ \E ocr \in OcrTexts, fail \in PageTools \cup {"none"} :
        pout' = extract_page_text_or_image(ctx.pdf, ctx.page, ptxt, ocr, fail)
    /\ ppc' = IF pout'.exc = "" THEN "returned" ELSE "raised"
    /\ UNCHANGED <<ctx, ptxt, normVars, sweepVars>>

NextPage == ExtractPage

SpecPage == InitPage /\ [][NextPage]_vars

\* ------------------------------------------------- page materializer: claims
NonWsCount(t) == Cardinality({i \in 1..Len(t) : ~IsSpace(t[i])})

\* The distance from the first to the last non-whitespace character, both
\* counted: the text's length once leading and trailing whitespace is cut.
TrimmedLength(t) ==
    LET keep == {i \in 1..Len(t) : ~IsSpace(t[i])}
    IN  IF keep = {} THEN 0
        ELSE (CHOOSE i \in keep : \A j \in keep : j <= i)
             - (CHOOSE i \in keep : \A j \in keep : i <= j) + 1

RanOcr == \E i \in 1..Len(pout.ran) : pout.ran[i] \in {"pdftoppm", "tesseract"}

\* C10 as stated: an image reference is returned (and rasterization and OCR
\* are run) exactly when the extracted text has fewer than 180 non-whitespace
\* characters, however much whitespace it contains.
C10_NonWhitespaceThreshold ==
    /\ ppc = "returned" => (pout.img # None <=> NonWsCount(ptxt) < MinTextChars)
    /\ ppc \in {"returned", "raised"} /\ RanOcr => NonWsCount(ptxt) < MinTextChars

\* C10 amended: an image reference is returned, and rasterization and OCR are
\* run, exactly when the extracted text without its leading and trailing
\* whitespace is shorter than 180 characters; whitespace inside the text
\* counts towards the 180.
C10_TrimmedLengthThreshold ==
    /\ ppc = "returned" =>
        /\ pout.img # None <=> TrimmedLength(ptxt) < MinTextChars
        /\ RanOcr <=> TrimmedLength(ptxt) < MinTextChars
    /\ ppc = "raised" /\ RanOcr => TrimmedLength(ptxt) < MinTextChars

\* A page of fewer than 180 non-whitespace characters whose inner whitespace
\* brings it to 180: returned as text, without OCR.
C10_Witness ==
    /\ ppc = "returned"
    /\ NonWsCount(ptxt) < MinTextChars
    /\ TrimmedLength(ptxt) >= MinTextChars
    /\ Len(ptxt) > TrimmedLength(ptxt)
    /\ pout.img = None
    /\ ~RanOcr

\* ------------------------------------------------------- the sweep: harness
SweepDay == <<2024, 5, 15>>

NoContext == [pdf |-> "", page |-> 0]

InitSweep ==
    /\ gemini \in [extract : [PageKinds -> ExtractResponses],
                   verify : [PageKinds -> VerifyResponses]]
    /\ pdfinfo \in [Pdfs -> PdfInfoOutputs]
    /\ today = SweepDay
    /\ pandas \in BOOLEAN
    /\ table = <<>>
    /\ summaries = <<>>
    /\ stats = ZeroStats
    /\ pc = "idle"
    /\ pdfs = <<>>
    /\ docIdx = 0
    /\ n = 0
    /\ pageIdx = 0
    /\ all_rows = <<>>
    /\ grand = <<>>
    /\ abort = NoAbort
    /\ sweeps = 0
    /\ tableAtStart = <<>>
    /\ done = <<>>
    /\ ctx = NoContext
    /\ NormIdle
    /\ PageIdle

Raise(exc, at) ==
    /\ pc' = "aborted"
    /\ abort' = [exc |-> exc, at |-> at]

\* python wrangler.py <folder>: sweep_folder lists the PDFs. A run that ended
\* in an exception can be followed by a new run over the same files.
StartSweep ==
    /\ pc \in {"idle", "aborted"}
    /\ sweeps < MaxSweeps
    /\ pdfs' = list_pdfs(Folder)
    /\ grand' = <<>>
    /\ docIdx' = 1
    /\ pc' = IF pdfs' = <<>> THEN "aggregate" ELSE "doc"
    /\ abort' = NoAbort
    /\ n' = 0
    /\ pageIdx' = 0
    /\ all_rows' = <<>>
    /\ sweeps' = sweeps + 1
    /\ tableAtStart' = table
    /\ UNCHANGED <<ctx, normVars, pageVars, envVars, fileVars, done>>

\* process_pdf(pdf): n = pdf_pages(pdf_path); all_rows = [].
OpenDocument ==
    /\ pc = "doc"
    /\ \E failed \in BOOLEAN :
        IF failed
        THEN /\ Raise("RuntimeError", "pdfinfo")
             /\ UNCHANGED <<n, pageIdx, all_rows>>
        ELSE /\ n' = pdf_pages(pdfinfo[pdfs[docIdx]])
             /\ pageIdx' = 1
             /\ all_rows' = <<>>
             /\ pc' = "pages"
             /\ abort' = abort
    /\ UNCHANGED <<ctx, normVars, pageVars, envVars, fileVars, histVars,
                   pdfs, docIdx, grand>>

\* process_pdf: the loop body for page pageIdx. When normalize_row raises on a
\* later record, the records appended before it are in all_rows at the raise.
ProcessPage ==
    /\ pc = "pages"
    /\ pageIdx <= n
    /\ \E ocr \in {<<>>, Text(<<"o", "c", "r">>)}, fail \in SweepTools \cup {"none"} :
        LET r == process_page(pdfs[docIdx], pageIdx, ocr, fail, gemini)
        IN  IF r.exc # ""
            THEN /\ Raise(r.exc, r.at)
                 /\ all_rows' = all_rows \o r.rows
                 /\ UNCHANGED pageIdx
            ELSE /\ all_rows' = all_rows \o r.rows
                 /\ pageIdx' = pageIdx + 1
                 /\ UNCHANGED <<pc, abort>>
    /\ UNCHANGED <<ctx, normVars, pageVars, envVars, fileVars, histVars,
                   pdfs, docIdx, n, grand>>

\* sweep_folder: process_pdf has returned; append_rows, write_summary_md,
\* grand.extend(rows), and on to the next PDF.
FinishDocument ==
    /\ pc = "pages"
    /\ pageIdx > n
    /\ table' = append_rows(table, all_rows)
    /\ summaries' = write_summary_md(summaries, PathName(pdfs[docIdx]), all_rows)
    /\ grand' = grand \o all_rows
    /\ IF docIdx < Len(pdfs)
       THEN docIdx' = docIdx + 1 /\ pc' = "doc"
       ELSE docIdx' = docIdx /\ pc' = "aggregate"
    /\ UNCHANGED <<ctx, normVars, pageVars, envVars, histVars, stats,
                   pdfs, n, pageIdx, all_rows, abort>>

\* sweep_folder: aggregate_dashboard("out/tasks.csv") and the closing print.
Aggregate ==
    /\ pc = "aggregate"
    /\ stats' = aggregate_dashboard(table, today, pandas)
    /\ done' = Append(done, Len(table))
    /\ pc' = "idle"
    /\ UNCHANGED <<ctx, normVars, pageVars, envVars, table, summaries,
                   pdfs, docIdx, n, pageIdx, all_rows, grand, abort,
                   sweeps, tableAtStart>>

NextSweep ==
    StartSweep \/ OpenDocument \/ ProcessPage \/ FinishDocument \/ Aggregate

SpecSweep == InitSweep /\ [][NextSweep]_vars

\* -------------------------------------------------------- the sweep: claims
IsPrefix(a, b) == Len(a) <= Len(b) /\ SubSeq(b, 1, Len(a)) = a

\* The rows document pdf yields under the responses in force.
RECURSIVE ExpectedPageRows(_, _)
ExpectedPageRows(pdf, p) ==
    IF p = 0 THEN <<>>
    ELSE ExpectedPageRows(pdf, p - 1)
         \o csv_rows(page_rows(safe_json_loads(gemini.verify[page_kind(pdf, p)]),
                               pdf, p).rows)

ExpectedDocRows(pdf) == ExpectedPageRows(pdf, pdf_pages(pdfinfo[pdf]))

\* The rows of the first k documents of the sweep, in order.
RECURSIVE ExpectedRowsUpTo(_)
ExpectedRowsUpTo(k) ==
    IF k = 0 THEN <<>>
    ELSE ExpectedRowsUpTo(k - 1) \o ExpectedDocRows(pdfs[k])

ToolFailure == pc = "aborted" /\ abort.exc = "RuntimeError" /\ abort.at # ""

\* C3: when a command fails while document k is processed the sweep ends, and
\* the table holds the rows it held before the sweep, then all rows of
\* documents 1..k-1 in order, and no row of document k.
C3_AbortKeepsCommitted ==
    ToolFailure => table = tableAtStart \o ExpectedRowsUpTo(docIdx - 1)

\* A command fails on page 2 of the second document of a second sweep: the
\* page-1 rows in hand are dropped, the first document's rows were appended
\* behind the rows of the sweep before.
C3_Witness ==
    /\ ToolFailure
    /\ abort.at = "gemini_selfcheck"
    /\ docIdx = 2
    /\ pageIdx = 2
    /\ all_rows # <<>>
    /\ tableAtStart # <<>>
    /\ Len(table) > Len(tableAtStart)

\* C4: the table only grows at its end, every earlier row kept as a prefix;
\* nothing is deduplicated, so sweeps that run to their end over the same
\* files with the same responses add the same number of rows each: after two
\* of them the table is twice as long as after one.
C4_AppendOnly ==
    /\ [][IsPrefix(table, table')]_vars
    /\ [](Len(done) = sweeps =>
            \A i \in 1..Len(done) : done[i] = i * done[1])

\* Two sweeps ran to their end and the first one wrote rows.
C4_Witness ==
    /\ pc = "idle"
    /\ sweeps = 2
    /\ Len(done) = 2
    /\ done[1] > 0
    /\ Len(table) = 2 * done[1]

\* A response is malformed when it is not a well-formed list of records:
\* text that is not JSON, or JSON that is not a list of objects.
Malformed(resp) ==
    \/ resp.form \in {"prose", "broken"}
    \/ resp.value.jt # "list"
    \/ \E i \in 1..Len(resp.value.items) : ~resp.value.items[i].obj

\* C6: a malformed response at either pass yields no record for its page and
\* raises nothing: only a failed command ends a run, and every record in hand
\* comes from a page whose responses were well-formed.
C6_MalformedYieldsNothing ==
    /\ pc = "aborted" => abort.at # ""
    /\ \A i \in 1..Len(all_rows) :
        LET kind == page_kind(pdfs[docIdx], all_rows[i].page.n)
        IN ~Malformed(gemini.verify[kind]) /\ ~Malformed(gemini.extract[kind])

\* ---------------------------------------------------------- rollup: harness
RollupDays == {<<2024, 5, 15>>, <<2025, 3, 1>>}

\* The date k days after t.
DateAtOffset(t, k) ==
    (CHOOSE r \in IsoDates : Ordinal(r.date) - Ordinal(t) = k).date

\* due_by values around the window's edges, with an absent and an unparseable one.
DueSamples(t) ==
    {None, StrV("when convenient")}
    \cup {StrV(IsoText(DateAtOffset(t, k))) : k \in {30, 31, 0 - 365, 0 - 366}}

\* For each day, the batches of records one document can yield, as
\* normalize_row emits them.
RollupBatches ==
    [t \in RollupDays |->
        LET rows == {normalize_row([CandA EXCEPT !.due_by = due],
                                   "sample_reports/a.pdf", 1).row :
                        due \in DueSamples(t)}
        IN {<<r>> : r \in rows} \cup {<<r1, r2>> : r1 \in rows, r2 \in rows}]

InitRollup ==
    /\ today \in RollupDays
    /\ pandas \in BOOLEAN
    /\ table = <<>>
    /\ stats = ZeroStats
    /\ pc = "appending"
    /\ gemini = <<>>
    /\ pdfinfo = <<>>
    /\ summaries = <<>>
    /\ pdfs = <<>>
    /\ docIdx = 0
    /\ n = 0
    /\ pageIdx = 0
    /\ all_rows = <<>>
    /\ grand = <<>>
    /\ abort = NoAbort
    /\ sweeps = 0
    /\ tableAtStart = <<>>
    /\ done = <<>>
    /\ ctx = NoContext
    /\ NormIdle
    /\ PageIdle

\* append_rows("out/tasks.csv", rows) for one document's records.
AppendDocument ==
    /\ pc \in {"appending", "rolled"}
    /\ \E rows \in RollupBatches[today] :
        /\ Len(table) + Len(rows) <= MaxRows
        /\ table' = append_rows(table, rows)
    /\ pc' = "appending"
    /\ UNCHANGED <<ctx, normVars, pageVars, envVars, histVars, summaries, stats,
                   pdfs, docIdx, n, pageIdx, all_rows, grand, abort>>

\* aggregate_dashboard("out/tasks.csv")
Rollup ==
    /\ pc = "appending"
    /\ stats' = aggregate_dashboard(table, today, pandas)
    /\ pc' = "rolled"
    /\ UNCHANGED <<ctx, normVars, pageVars, envVars, histVars, table, summaries,
                   pdfs, docIdx, n, pageIdx, all_rows, grand, abort>>

NextRollup == AppendDocument \/ Rollup

SpecRollup == InitRollup /\ [][NextRollup]_vars

\* ----------------------------------------------------------- rollup: claims
\* The text is a calendar date no more than 365 days before and no more than
\* 30 days after t.
InWindow(text, t) ==
    /\ text \in IsoDateTexts
    /\ Ordinal(DateOfText(text)) - Ordinal(t) >= 0 - 365
    /\ Ordinal(DateOfText(text)) - Ordinal(t) <= 30

\* C5: in the rollup, due_within_30 is the number of rows whose due_by lies in
\* [today - 365, today + 30], both ends included, rows with an absent or
\* unparseable due_by not counted; total_rows is the number of rows of the table.
C5_RollupWindow ==
    pc = "rolled" =>
        /\ stats.total_rows = Len(table)
        /\ stats.due_within_30 =
            Cardinality({i \in 1..Len(table) : InWindow(table[i][8], today)})

=============================================================================
